---- MODULE Spec2Model ----
(***************************************************************************)
(* Pallet documentation wizard (PalletApp / PalletContext).                *)
(*                                                                         *)
(* The model follows the React components of the repository:              *)
(*   - PalletProvider holds the in-progress session (totalPallets,        *)
(*     photos, customerName, poNumber, currentPallet, currentSide) and    *)
(*     the archive of finished sessions (localSessions in memory, the     *)
(*     pallet_local_sessions item of localStorage).                       *)
(*   - PalletApp holds the wizard stage and reacts to the router's        *)
(*     location; the browser's session history is the list of entries     *)
(*     the router pushed, with the index of the current one.              *)
(*   - PalletCountSelector and CustomerInfoForm hold the typed count and  *)
(*     the inline validation messages.                                    *)
(*                                                                         *)
(* Strings are sequences of one-character strings, so that trimming,      *)
(* parsing and formatting are computed and not assumed.                   *)
(*                                                                         *)
(* The photo array is kept as the bag of its elements.  The code reads    *)
(* the array with filter, length, spread and iteration only, never by     *)
(* position, so what it does depends on which photos the array holds and  *)
(* how many times, which is what the bag records.                         *)
(***************************************************************************)
EXTENDS Integers, Sequences, FiniteSets, Bags, TLC

VARIABLES
    stage,          \* PalletApp: useState<AppStage>
    entries,        \* router: the browser's session history (list of paths)
    idx,            \* router: index of the current entry; location.pathname = entries[idx]
    totalPallets,   \* PalletProvider state
    photos,         \* PalletProvider state: PalletPhoto[] as a bag of photos
    customerName,   \* PalletProvider state
    poNumber,       \* PalletProvider state
    currentPallet,  \* PalletProvider state
    currentSide,    \* PalletProvider state
    localSessions,  \* PalletProvider state: in-memory list of PalletSession
    storage,        \* localStorage item pallet_local_sessions (NoItem when absent)
    count,          \* PalletCountSelector: useState<string>(count)
    error,          \* PalletCountSelector: useState<string>(error)
    errors,         \* CustomerInfoForm: useState({name, poNumber})
    mounted,        \* whether PalletProvider (with PalletApp inside it) is mounted
    timers,         \* number of armed setInterval timers of the cleanup effect
    now,            \* Date.now(), in milliseconds
    returned,       \* what the last call of saveSessionToLocalStorage returned (<<>>: no call yet)
    uuids,          \* number of ids uuidv4() has handed out
    savedSessions,  \* loadLocalSessions: what getItem returned when the provider was last mounted
    cameraView,     \* CameraView: the values of its useState hooks
    captures,       \* CameraView: the calls of takePhoto that have not returned yet
    aiUpscaleDisabled, \* sessionStorage: whether the item AI_UPSCALE_DISABLED is '1'
    toast,          \* the title of the toast CameraView showed last ("" before the first)
    aiFailed,       \* history: 'AI enhancement failed' was logged in this browser session
    managerPhotos,  \* PhotoMemoryManager.photos: the entries of the Map, in insertion order
    supabase,       \* PalletProvider state: whether the client has been created (null before)
    isUploading,    \* PalletProvider state
    uploads         \* the calls of uploadPhotosToSupabase: in flight, or returned

vars == <<stage, entries, idx, totalPallets, photos, customerName, poNumber,
          currentPallet, currentSide, localSessions, storage, count, error, errors,
          mounted, timers, now, returned, uuids, savedSessions,
          cameraView, captures, aiUpscaleDisabled, toast, aiFailed, managerPhotos,
          supabase, isUploading, uploads>>

session == <<totalPallets, photos, customerName, poNumber, currentPallet, currentSide>>
router == <<entries, idx>>
archive == <<localSessions, storage>>
forms == <<count, error, errors>>
host == <<mounted, timers, now, returned, uuids, savedSessions>>
camera == <<cameraView, captures, aiUpscaleDisabled, toast, aiFailed>>
backend == <<supabase, isUploading, uploads>>
aside == <<camera, managerPhotos, backend>>

----------------------------------------------------------------------------
(* Bounds of the model                                                     *)

\* largest pallet count typed into the count field in Spec
MaxCount == 2
\* longest browser session history that is followed
MaxEntries == 3
\* days the clock is followed beyond StartTime
MaxTicks == 1
\* session records created by saveSessionToLocalStorage
MaxRecords == 1

----------------------------------------------------------------------------
(* Program constants                                                       *)

COUNT_SELECTION == "COUNT_SELECTION"
CUSTOMER_INFO == "CUSTOMER_INFO"
PHOTO_CAPTURE == "PHOTO_CAPTURE"
GALLERY == "GALLERY"
HISTORY == "HISTORY"
AppStage == {COUNT_SELECTION, CUSTOMER_INFO, PHOTO_CAPTURE, GALLERY, HISTORY}

HomePath == "/"
HistoryPath == "/history"
Paths == {HomePath, HistoryPath}

\* sides photographed per pallet (PalletApp: currentSide < 4)
SidesPerPallet == 4
\* PalletCountSelector: palletCount > 50 is rejected
MaxPalletsPerSession == 50
\* security: sanitized.length > 100 / > 50 is rejected
MaxNameLength == 100
MaxPoLength == 50
\* PalletContext: const ONE_WEEK_MS = 7 * 24 * 60 * 60 * 1000
ONE_WEEK_MS == 7 * 24 * 60 * 60 * 1000
\* PalletContext: setInterval(cleanupExpiredSessions, 24 * 60 * 60 * 1000)
CleanupIntervalMs == 24 * 60 * 60 * 1000
\* PalletContext: useState<PalletSession[]>([])
InitialLocalSessions == <<>>

\* the result of parseInt on a text without leading digits; the texts of
\* the model carry no sign, so that no parsed number is negative
NaN == 0 - 1
\* localStorage.getItem of a key that is not set
NoItem == [kind |-> "null"]
\* an item whose text JSON.parse rejects; the empty text is one of them
RawText(text) == [kind |-> "text", text |-> text]
\* an item whose text JSON.parse reads as a value that is not an array
JsonObject == [kind |-> "object"]
EmptyString == <<>>

----------------------------------------------------------------------------
(* Strings                                                                 *)

DigitChars == <<"0", "1", "2", "3", "4", "5", "6", "7", "8", "9">>
Digits == {DigitChars[i] : i \in 1..10}
DigitValue(c) == (CHOOSE i \in 1..10 : DigitChars[i] = c) - 1
Whitespace == {" "}
Letters == {"a", "b"}

\* Number.prototype.toString for a non-negative integer
RECURSIVE NumberToString(_)
NumberToString(n) ==
    IF n < 10 THEN <<DigitChars[n + 1]>>
    ELSE NumberToString(n \div 10) \o <<DigitChars[(n % 10) + 1]>>

\* value of the longest prefix of digits of s, NaN when that prefix is empty
RECURSIVE ParseDigits(_, _, _)
ParseDigits(s, acc, seen) ==
    IF s # <<>> /\ Head(s) \in Digits
    THEN ParseDigits(Tail(s), acc * 10 + DigitValue(Head(s)), TRUE)
    ELSE IF seen THEN acc ELSE NaN

RECURSIVE TrimStart(_)
TrimStart(s) ==
    IF s # <<>> /\ Head(s) \in Whitespace THEN TrimStart(Tail(s)) ELSE s

RECURSIVE TrimEnd(_)
TrimEnd(s) ==
    IF s # <<>> /\ s[Len(s)] \in Whitespace
    THEN TrimEnd(SubSeq(s, 1, Len(s) - 1)) ELSE s

\* String.prototype.trim
trim(s) == TrimEnd(TrimStart(s))

\* parseInt(count) of PalletCountSelector.handleContinue: leading white
\* space is skipped, the digits that follow are read in base 10
parseInt(s) == ParseDigits(TrimStart(s), 0, FALSE)

\* /^\d*$/.test(value)
IsDigitString(s) == \A i \in 1..Len(s) : s[i] \in Digits

----------------------------------------------------------------------------
(* lib/security: sanitizing and validating the customer fields             *)

NameChars == Letters \cup Digits \cup Whitespace \cup {"-", "_", "&", ".", ","}
PoChars == Letters \cup Digits \cup {"-", "_"}

\* DOMPurify.sanitize(input.trim()).  The strings of the model hold no
\* markup character (<, >, &), and DOMPurify returns such text as it is;
\* what is left of sanitizeInput is the trimming.
sanitizeInput(input) == trim(input)

NameRequired == "Customer name is required"
NameTooLong == "Customer name must be less than 100 characters"
NameInvalidChars == "Customer name contains invalid characters"
PoRequired == "PO Number is required"
PoTooLong == "PO Number must be less than 50 characters"
PoInvalidChars == "PO Number contains invalid characters"
NoError == ""

validateCustomerName(name) ==
    LET sanitized == sanitizeInput(name) IN
    IF Len(sanitized) = 0 THEN [isValid |-> FALSE, error |-> NameRequired]
    ELSE IF Len(sanitized) > MaxNameLength THEN [isValid |-> FALSE, error |-> NameTooLong]
    ELSE IF ~(\A i \in 1..Len(sanitized) : sanitized[i] \in NameChars)
         THEN [isValid |-> FALSE, error |-> NameInvalidChars]
    ELSE [isValid |-> TRUE, error |-> NoError]

validatePoNumber(po) ==
    LET sanitized == sanitizeInput(po) IN
    IF Len(sanitized) = 0 THEN [isValid |-> FALSE, error |-> PoRequired]
    ELSE IF Len(sanitized) > MaxPoLength THEN [isValid |-> FALSE, error |-> PoTooLong]
    ELSE IF ~(\A i \in 1..Len(sanitized) : sanitized[i] \in PoChars)
         THEN [isValid |-> FALSE, error |-> PoInvalidChars]
    ELSE [isValid |-> TRUE, error |-> NoError]

----------------------------------------------------------------------------
(* Inputs                                                                  *)

\* what the user types into the count field: nothing, 0..MaxCount, one
\* more than the allowed maximum, and a text that handleCountChange refuses
CountInputs ==
    {EmptyString, <<"x">>, NumberToString(MaxPalletsPerSession + 1)}
        \cup {NumberToString(n) : n \in 0..MaxCount}

\* what the user types into the customer and PO fields
TextInputs == {EmptyString, <<" ">>, <<" ", "a">>}

\* image payloads handed over by the camera
PhotoUris == {"uri1"}
RetakeUris == {"uri1", "uri2"}

\* archives found in localStorage when the provider is created
StoredSession ==
    [id |-> "id0", customerName |-> <<"b">>, poNumber |-> <<"b">>,
     totalPallets |-> 1,
     photos |-> SetToBag({[palletIndex |-> 1, sideIndex |-> 1, photoUri |-> "uri1"]}),
     timestamp |-> 0]
\* the item written by JSON.stringify(sessions): the text of an array of
\* records.  The records hold strings, integers and arrays of such records
\* only, which JSON.parse reads back as they were written.
Item(sessions) == [kind |-> "array", sessions |-> sessions]
StoredInputs == {Item(<<StoredSession>>)}

\* the clock when the model starts.  A day later StoredSession (written
\* at 0) is one millisecond older than a week and StoredSession1 (written
\* at 1) is a week old to the millisecond.
StartTime == ONE_WEEK_MS - CleanupIntervalMs + 1

\* a second archived record, one millisecond younger than StoredSession
StoredSession1 ==
    [id |-> "id00", customerName |-> <<"a">>, poNumber |-> <<"a">>,
     totalPallets |-> 1,
     photos |-> SetToBag({[palletIndex |-> 1, sideIndex |-> 1, photoUri |-> "uri1"]}),
     timestamp |-> 1]

\* records that were not written by this program: one field is missing
\* (for photos and timestamp: not an array, not a number), or id,
\* customerName, poNumber or totalPallets is empty or 0
Without(field) == [f \in (DOMAIN StoredSession) \ {field} |-> StoredSession[f]]
CorruptRecords ==
    {Without(field) : field \in DOMAIN StoredSession}
        \cup {[StoredSession EXCEPT !.id = ""],
              [StoredSession EXCEPT !.customerName = EmptyString],
              [StoredSession EXCEPT !.poNumber = EmptyString],
              [StoredSession EXCEPT !.totalPallets = 0]}

\* what localStorage may hold under pallet_local_sessions when the
\* provider is created
StoreInputs ==
    {NoItem, RawText(EmptyString), RawText(<<"x">>), JsonObject,
     Item(<<>>), Item(<<StoredSession>>), Item(<<StoredSession1, StoredSession>>)}
        \cup {Item(<<StoredSession1, r>>) : r \in CorruptRecords}

\* what this program leaves there: nothing, or a list of its records
ArchiveInputs == {NoItem, Item(<<StoredSession1, StoredSession>>)}

\* uuidv4(): the n-th id handed out; no two are equal, none is the id of
\* an archived record
UuidNames == <<"id1", "id2", "id3", "id4", "id5", "id6">>
uuidv4(n) == UuidNames[n]

\* ids a delete button or a caller of deleteLocalSession may pass
SessionIds == {"id0", "id00"} \cup {uuidv4(n) : n \in 1..MaxRecords}

----------------------------------------------------------------------------
(* PalletProvider                                                          *)

\* addPhoto without the filter: the earlier photo of the pair is kept
addPhoto_noFilter(list, palletIndex, sideIndex, photoUri) ==
    list (+) SetToBag({[palletIndex |-> palletIndex, sideIndex |-> sideIndex,
                        photoUri |-> photoUri]})

\* addPhoto: the photos other than those of (palletIndex, sideIndex),
\* and the new photo
addPhoto(list, palletIndex, sideIndex, photoUri) ==
    LET keep(photo) == ~(photo.palletIndex = palletIndex /\ photo.sideIndex = sideIndex)
        filteredPhotos == [photo \in {ph \in DOMAIN list : keep(ph)} |-> list[photo]]
    IN  filteredPhotos (+) SetToBag({[palletIndex |-> palletIndex, sideIndex |-> sideIndex,
                                      photoUri |-> photoUri]})

\* resetData without setCurrentSide(1)
resetData_keepsSide ==
    /\ totalPallets' = 0
    /\ photos' = EmptyBag
    /\ customerName' = EmptyString
    /\ poNumber' = EmptyString
    /\ currentPallet' = 1
    /\ UNCHANGED currentSide

resetData ==
    /\ totalPallets' = 0
    /\ photos' = EmptyBag
    /\ customerName' = EmptyString
    /\ poNumber' = EmptyString
    /\ currentPallet' = 1
    /\ currentSide' = 1

\* the guard of loadLocalSessions on one parsed record: session.id &&
\* session.customerName && session.poNumber && session.totalPallets &&
\* Array.isArray(session.photos) && typeof session.timestamp === 'number'.
\* A field that is present in a record of the model has the type the
\* interface PalletSession gives it.
ValidStoredSession(s) ==
    /\ "id" \in DOMAIN s /\ s.id # ""
    /\ "customerName" \in DOMAIN s /\ s.customerName # EmptyString
    /\ "poNumber" \in DOMAIN s /\ s.poNumber # EmptyString
    /\ "totalPallets" \in DOMAIN s /\ s.totalPallets # 0
    /\ "photos" \in DOMAIN s
    /\ "timestamp" \in DOMAIN s

\* if (savedSessions): null and the empty text are falsy
Falsy(item) == item = NoItem \/ (item.kind = "text" /\ item.text = EmptyString)

\* loadLocalSessions with the guard applied to the first record only
loadLocalSessions_firstRecordOnly(item) ==
    IF Falsy(item) THEN [sessions |-> InitialLocalSessions, item |-> item]
    ELSE IF item.kind = "text" THEN [sessions |-> InitialLocalSessions, item |-> NoItem]
    ELSE IF /\ item.kind = "array"
            /\ \A i \in 1..Len(item.sessions) : i = 1 => ValidStoredSession(item.sessions[i])
         THEN [sessions |-> item.sessions, item |-> item]
         ELSE [sessions |-> InitialLocalSessions, item |-> NoItem]

\* loadLocalSessions, run by the mount effect on a provider whose list is
\* still the initial one: the in-memory list and the item left in
\* localStorage.  A falsy item is not looked at; a text that JSON.parse
\* rejects is removed by the catch; an array whose records all pass the
\* guard is taken; anything else is removed.
loadLocalSessions(item) ==
    IF Falsy(item) THEN [sessions |-> InitialLocalSessions, item |-> item]
    ELSE IF item.kind = "text" THEN [sessions |-> InitialLocalSessions, item |-> NoItem]
    ELSE IF /\ item.kind = "array"
            /\ \A i \in 1..Len(item.sessions) : ValidStoredSession(item.sessions[i])
         THEN [sessions |-> item.sessions, item |-> item]
         ELSE [sessions |-> InitialLocalSessions, item |-> NoItem]

\* sessions.filter(session => now - session.timestamp < ONE_WEEK_MS)
Unexpired(sessions, t) == SelectSeq(sessions, LAMBDA s : t - s.timestamp < ONE_WEEK_MS)

\* cleanupExpiredSessions of the cleanup effect.  `captured` is the
\* localSessions the function closed over when the effect ran, `current`
\* and `item` are the list and the storage item as they stand, t is
\* Date.now(); the result is the list and the item it leaves.  When
\* setItem throws the list is already set and the item stays.
cleanupExpiredSessions(captured, current, item, t, setItemThrows) ==
    LET filteredSessions == Unexpired(captured, t) IN
    IF Len(filteredSessions) # Len(captured)
    THEN [sessions |-> filteredSessions,
          item |-> IF setItemThrows THEN item ELSE Item(filteredSessions)]
    ELSE [sessions |-> current, item |-> item]

\* a new record that takes its pallet count from a fresh session
NewSession_noTotal ==
    [id |-> uuidv4(uuids + 1), customerName |-> customerName, poNumber |-> poNumber,
     totalPallets |-> 0, photos |-> photos, timestamp |-> now]

\* the record saveSessionToLocalStorage builds from the session
NewSession ==
    [id |-> uuidv4(uuids + 1), customerName |-> customerName, poNumber |-> poNumber,
     totalPallets |-> totalPallets, photos |-> photos, timestamp |-> now]

\* saveSessionToLocalStorage that adds the record at the end of the list
saveSessionToLocalStorage_appends(setItemThrows) ==
    /\ IF BagCardinality(photos) = 0 \/ customerName = EmptyString \/ poNumber = EmptyString
       THEN /\ returned' = <<FALSE>>
            /\ UNCHANGED <<archive, uuids>>
       ELSE LET updatedSessions == localSessions \o <<NewSession>> IN
            /\ uuids' = uuids + 1
            /\ localSessions' = updatedSessions
            /\ IF setItemThrows
               THEN storage' = storage /\ returned' = <<FALSE>>
               ELSE storage' = Item(updatedSessions) /\ returned' = <<TRUE>>
    /\ UNCHANGED <<stage, router, session, forms, mounted, timers, now, savedSessions>>

\* saveSessionToLocalStorage without the check photos.length === 0
saveSessionToLocalStorage_noPhotoCheck(setItemThrows) ==
    /\ IF customerName = EmptyString \/ poNumber = EmptyString
       THEN /\ returned' = <<FALSE>>
            /\ UNCHANGED <<archive, uuids>>
       ELSE LET updatedSessions == <<NewSession>> \o localSessions IN
            /\ uuids' = uuids + 1
            /\ localSessions' = updatedSessions
            /\ IF setItemThrows
               THEN storage' = storage /\ returned' = <<FALSE>>
               ELSE storage' = Item(updatedSessions) /\ returned' = <<TRUE>>
    /\ UNCHANGED <<stage, router, session, forms, mounted, timers, now, savedSessions>>

\* saveSessionToLocalStorage with setLocalSessions inside the try, after
\* setItem: a write that throws leaves the in-memory list as it was
saveSessionToLocalStorage_setsListAfterWrite(setItemThrows) ==
    /\ IF BagCardinality(photos) = 0 \/ customerName = EmptyString \/ poNumber = EmptyString
       THEN /\ returned' = <<FALSE>>
            /\ UNCHANGED <<archive, uuids>>
       ELSE LET updatedSessions == <<NewSession>> \o localSessions IN
            /\ uuids' = uuids + 1
            /\ IF setItemThrows
               THEN UNCHANGED archive /\ returned' = <<FALSE>>
               ELSE /\ localSessions' = updatedSessions
                    /\ storage' = Item(updatedSessions) /\ returned' = <<TRUE>>
    /\ UNCHANGED <<stage, router, session, forms, mounted, timers, now, savedSessions>>

\* saveSessionToLocalStorage: false when there is no photo or no customer
\* name or no PO number; otherwise the new record is put before the
\* records of the in-memory list, the list is set, and the list is
\* written; true when the write went through, false when setItem threw
saveSessionToLocalStorage(setItemThrows) ==
    /\ IF BagCardinality(photos) = 0 \/ customerName = EmptyString \/ poNumber = EmptyString
       THEN /\ returned' = <<FALSE>>
            /\ UNCHANGED <<archive, uuids>>
       ELSE LET updatedSessions == <<NewSession>> \o localSessions IN
            /\ uuids' = uuids + 1
            /\ localSessions' = updatedSessions
            /\ IF setItemThrows
               THEN storage' = storage /\ returned' = <<FALSE>>
               ELSE storage' = Item(updatedSessions) /\ returned' = <<TRUE>>
    /\ UNCHANGED <<stage, router, session, forms, mounted, timers, now, savedSessions>>

\* deleteLocalSession that writes the list as it was before the filter
deleteLocalSession_writesUnfiltered(sessionId, setItemThrows) ==
    LET updatedSessions == SelectSeq(localSessions, LAMBDA s : s.id # sessionId) IN
    /\ localSessions' = updatedSessions
    /\ storage' = IF setItemThrows THEN storage ELSE Item(localSessions)
    /\ UNCHANGED <<stage, router, session, forms, host>>

\* deleteLocalSession that removes the records in front of the one deleted
\* as well
deleteLocalSession_dropsPrefix(sessionId, setItemThrows) ==
    LET at == {i \in 1..Len(localSessions) : localSessions[i].id = sessionId}
        updatedSessions ==
            IF at = {} THEN localSessions
            ELSE SubSeq(localSessions, 1 + CHOOSE i \in at : \A j \in at : j <= i,
                        Len(localSessions))
    IN  /\ localSessions' = updatedSessions
        /\ storage' = IF setItemThrows THEN storage ELSE Item(updatedSessions)
        /\ UNCHANGED <<stage, router, session, forms, host>>

\* deleteLocalSession: the list without the records of that id is set and
\* written; setItem is not inside a try, so when it throws the list is
\* already set and the item stays
deleteLocalSession(sessionId, setItemThrows) ==
    LET updatedSessions == SelectSeq(localSessions, LAMBDA s : s.id # sessionId) IN
    /\ localSessions' = updatedSessions
    /\ storage' = IF setItemThrows THEN storage ELSE Item(updatedSessions)
    /\ UNCHANGED <<stage, router, session, forms, host>>

----------------------------------------------------------------------------
(* PalletApp                                                               *)

pathname == entries[idx]

NoErrors == [name |-> NoError, poNumber |-> NoError]

\* renderStage: a stage change unmounts the form of the old stage and
\* mounts the one of the new stage with its initial local state
\* (PalletCountSelector: count = totalPallets > 0 ? totalPallets.toString() : '')
renderStage(newStage, newTotal) ==
    IF newStage = stage THEN UNCHANGED forms
    ELSE /\ count' = IF newStage = COUNT_SELECTION /\ newTotal > 0
                     THEN NumberToString(newTotal) ELSE EmptyString
         /\ error' = NoError
         /\ errors' = NoErrors

\* navigate(to): push an entry after the current one, dropping the
\* entries ahead of it
navigate(to) ==
    /\ idx < MaxEntries
    /\ entries' = Append(SubSeq(entries, 1, idx), to)
    /\ idx' = idx + 1

\* useEffect on location.pathname: runs when the pathname has changed
LocationEffect(oldPath, newPath, st) ==
    IF newPath # oldPath /\ newPath = HistoryPath THEN HISTORY ELSE st

\* advance with currentPallet <= totalPallets for currentPallet < totalPallets
advance_offByOne(cp, cs, tp) ==
    IF cs < SidesPerPallet
    THEN [stage |-> PHOTO_CAPTURE, currentPallet |-> cp, currentSide |-> cs + 1]
    ELSE IF cp <= tp
         THEN [stage |-> PHOTO_CAPTURE, currentPallet |-> cp + 1, currentSide |-> 1]
         ELSE [stage |-> GALLERY, currentPallet |-> cp, currentSide |-> cs]

\* handlePhotoTaken, the part after addPhoto: where the wizard stands next
advance(cp, cs, tp) ==
    IF cs < SidesPerPallet
    THEN [stage |-> PHOTO_CAPTURE, currentPallet |-> cp, currentSide |-> cs + 1]
    ELSE IF cp < tp
         THEN [stage |-> PHOTO_CAPTURE, currentPallet |-> cp + 1, currentSide |-> 1]
         ELSE [stage |-> GALLERY, currentPallet |-> cp, currentSide |-> cs]

\* back without the step to the previous pallet: the side is decremented
\* at side 1 as well
back_noWrap(st, cp, cs) ==
    IF st = CUSTOMER_INFO
    THEN [stage |-> COUNT_SELECTION, currentPallet |-> cp, currentSide |-> cs]
    ELSE IF st = PHOTO_CAPTURE
    THEN IF cp = 1 /\ cs = 1
         THEN [stage |-> CUSTOMER_INFO, currentPallet |-> cp, currentSide |-> cs]
         ELSE [stage |-> PHOTO_CAPTURE, currentPallet |-> cp, currentSide |-> cs - 1]
    ELSE IF st = HISTORY
    THEN [stage |-> COUNT_SELECTION, currentPallet |-> cp, currentSide |-> cs]
    ELSE [stage |-> st, currentPallet |-> cp, currentSide |-> cs]

\* back without setCurrentSide(4) on the step to the previous pallet
back_keepsSide(st, cp, cs) ==
    IF st = CUSTOMER_INFO
    THEN [stage |-> COUNT_SELECTION, currentPallet |-> cp, currentSide |-> cs]
    ELSE IF st = PHOTO_CAPTURE
    THEN IF cp = 1 /\ cs = 1
         THEN [stage |-> CUSTOMER_INFO, currentPallet |-> cp, currentSide |-> cs]
         ELSE IF cs = 1
              THEN [stage |-> PHOTO_CAPTURE, currentPallet |-> cp - 1, currentSide |-> cs]
              ELSE [stage |-> PHOTO_CAPTURE, currentPallet |-> cp, currentSide |-> cs - 1]
    ELSE IF st = HISTORY
    THEN [stage |-> COUNT_SELECTION, currentPallet |-> cp, currentSide |-> cs]
    ELSE [stage |-> st, currentPallet |-> cp, currentSide |-> cs]

\* handleBack: where the wizard stands after it
back(st, cp, cs) ==
    IF st = CUSTOMER_INFO
    THEN [stage |-> COUNT_SELECTION, currentPallet |-> cp, currentSide |-> cs]
    ELSE IF st = PHOTO_CAPTURE
    THEN IF cp = 1 /\ cs = 1
         THEN [stage |-> CUSTOMER_INFO, currentPallet |-> cp, currentSide |-> cs]
         ELSE IF cs = 1
              THEN [stage |-> PHOTO_CAPTURE, currentPallet |-> cp - 1,
                    currentSide |-> SidesPerPallet]
              ELSE [stage |-> PHOTO_CAPTURE, currentPallet |-> cp, currentSide |-> cs - 1]
    ELSE IF st = HISTORY
    THEN [stage |-> COUNT_SELECTION, currentPallet |-> cp, currentSide |-> cs]
    ELSE [stage |-> st, currentPallet |-> cp, currentSide |-> cs]

showBackButton ==
    \/ stage = CUSTOMER_INFO
    \/ (stage = PHOTO_CAPTURE /\ ~(currentPallet = 1 /\ currentSide = 1))
    \/ stage = HISTORY

showHistoryButton == stage = COUNT_SELECTION

handlePhotoTaken(photoUri) ==
    LET next == advance(currentPallet, currentSide, totalPallets) IN
    /\ photos' = addPhoto(photos, currentPallet, currentSide, photoUri)
    /\ currentPallet' = next.currentPallet
    /\ currentSide' = next.currentSide
    /\ stage' = next.stage
    /\ renderStage(next.stage, totalPallets)
    /\ UNCHANGED <<totalPallets, customerName, poNumber, router, archive, host>>

\* handleBack that also discards the photo of the position it returns to
handleBack_dropsPhoto ==
    LET prev == back(stage, currentPallet, currentSide) IN
    /\ currentPallet' = prev.currentPallet
    /\ currentSide' = prev.currentSide
    /\ stage' = prev.stage
    /\ renderStage(prev.stage, totalPallets)
    /\ IF stage = HISTORY THEN navigate(HomePath) ELSE UNCHANGED router
    /\ photos' = [ph \in {x \in DOMAIN photos :
                               ~(x.palletIndex = prev.currentPallet
                                   /\ x.sideIndex = prev.currentSide)} |-> photos[ph]]
    /\ UNCHANGED <<totalPallets, customerName, poNumber, archive, host>>

handleBack ==
    LET prev == back(stage, currentPallet, currentSide) IN
    /\ currentPallet' = prev.currentPallet
    /\ currentSide' = prev.currentSide
    /\ stage' = prev.stage
    /\ renderStage(prev.stage, totalPallets)
    /\ IF stage = HISTORY THEN navigate(HomePath) ELSE UNCHANGED router
    /\ UNCHANGED <<totalPallets, photos, customerName, poNumber, archive, host>>

handleRestart ==
    /\ resetData
    /\ stage' = COUNT_SELECTION
    /\ navigate(HomePath)
    /\ renderStage(COUNT_SELECTION, 0)
    /\ UNCHANGED <<archive, host>>

goToHistory ==
    /\ navigate(HistoryPath)
    /\ stage' = HISTORY
    /\ renderStage(HISTORY, totalPallets)
    /\ UNCHANGED <<session, archive, host>>

----------------------------------------------------------------------------
(* PalletCountSelector                                                     *)

CountInvalid == "Please enter a valid number"
CountNotPositive == "Number of pallets must be greater than zero"
CountTooLarge == "Maximum 50 pallets allowed per session"

handleCountChange(value) ==
    /\ IF IsDigitString(value)
       THEN count' = value /\ error' = NoError
       ELSE UNCHANGED <<count, error>>
    /\ UNCHANGED <<stage, router, session, archive, host, errors>>

\* CountError without the check palletCount > 50
CountError_noMaximum(c) ==
    LET palletCount == parseInt(c) IN
    IF c = EmptyString \/ palletCount = NaN THEN CountInvalid
    ELSE IF palletCount <= 0 THEN CountNotPositive
    ELSE NoError

\* the message handleContinue shows for the typed count, NoError when the
\* count is accepted
CountError(c) ==
    LET palletCount == parseInt(c) IN
    IF c = EmptyString \/ palletCount = NaN THEN CountInvalid
    ELSE IF palletCount <= 0 THEN CountNotPositive
    ELSE IF palletCount > MaxPalletsPerSession THEN CountTooLarge
    ELSE NoError

PalletCountSelector_handleContinue ==
    IF CountError(count) # NoError
    THEN /\ error' = CountError(count)
         /\ UNCHANGED <<stage, router, session, archive, host, count, errors>>
    ELSE /\ totalPallets' = parseInt(count)
         /\ stage' = CUSTOMER_INFO
         /\ renderStage(CUSTOMER_INFO, parseInt(count))
         /\ UNCHANGED <<photos, customerName, poNumber, currentPallet, currentSide,
                        router, archive, host>>

----------------------------------------------------------------------------
(* CustomerInfoForm                                                        *)

setCustomerName(name) ==
    /\ customerName' = name
    /\ UNCHANGED <<stage, router, totalPallets, photos, poNumber, currentPallet,
                   currentSide, archive, host, forms>>

setPoNumber(po) ==
    /\ poNumber' = po
    /\ UNCHANGED <<stage, router, totalPallets, photos, customerName, currentPallet,
                   currentSide, archive, host, forms>>

CustomerInfoForm_handleContinue ==
    LET nameValidation == validateCustomerName(customerName)
        poValidation == validatePoNumber(poNumber)
    IN  IF nameValidation.isValid /\ poValidation.isValid
        THEN /\ customerName' = sanitizeInput(customerName)
             /\ poNumber' = sanitizeInput(poNumber)
             /\ stage' = PHOTO_CAPTURE
             /\ renderStage(PHOTO_CAPTURE, totalPallets)
             /\ UNCHANGED <<totalPallets, photos, currentPallet, currentSide,
                            router, archive, host>>
        ELSE /\ errors' = [name |-> nameValidation.error,
                           poNumber |-> poValidation.error]
             /\ UNCHANGED <<stage, router, session, archive, host, count, error>>

----------------------------------------------------------------------------
(* HistoryView and the browser                                             *)

\* <Link to="/"> of the empty history list: the location changes, the
\* stage is left to the location effect
ReturnToCameraLink ==
    /\ navigate(HomePath)
    /\ stage' = LocationEffect(pathname, HomePath, stage)
    /\ UNCHANGED <<session, archive, host, forms>>

\* the browser's (or the device's) back and forward buttons move within
\* the session history; the router reports the new location and the
\* location effect of PalletApp runs
Traverse(delta) ==
    /\ idx + delta \in 1..Len(entries)
    /\ idx' = idx + delta
    /\ UNCHANGED entries
    /\ stage' = LocationEffect(pathname, entries[idx + delta], stage)
    /\ renderStage(LocationEffect(pathname, entries[idx + delta], stage), totalPallets)
    /\ UNCHANGED <<session, archive, host>>

----------------------------------------------------------------------------
(* CameraView: the capture through the native camera, with and without  *)
(* the AI enhancement of the captured image                               *)

\* the most calls of takePhoto that are followed at a time
MaxCaptures == 2
\* calls of uploadPhotosToSupabase
MaxUploads == 2

\* '' of the photoUri hook
NoPhotoUri == EmptyString

\* photo.dataUrl of Camera.getPhoto: the image of what the camera was
\* opened for, the pallet and the side of the header at that time
dataUrl(context) == NumberToString(context[1]) \o <<"/">> \o NumberToString(context[2])

\* upscaleImage: another, larger image of the same thing
upscaleImage(imageDataUrl) == imageDataUrl \o <<"+">>

\* the hooks of a CameraView that was just mounted; aiEnhanceEnabled is
\* useState(true) where the component has the enhancement block, and
\* FALSE stands for the component without that block
InitialCameraView(enabled) ==
    [photoTaken |-> FALSE, photoUri |-> NoPhotoUri, isLoading |-> FALSE,
     isProcessing |-> FALSE, aiEnhanceEnabled |-> enabled]

\* a call of takePhoto that waits for Camera.getPhoto; live: the
\* component that made the call is still mounted, so its setters act
Request(context) ==
    [phase |-> "camera", context |-> context, url |-> NoPhotoUri, live |-> TRUE]

Remove(list, i) == SubSeq(list, 1, i - 1) \o SubSeq(list, i + 1, Len(list))

\* takePhoto up to its first await: setIsLoading(true), Camera.getPhoto
takePhoto(view, list, context) ==
    [view |-> [view EXCEPT !.isLoading = TRUE],
     captures |-> Append(list, Request(context))]

\* useEffect(..., [currentPallet, currentSide]) with the photoTaken of the
\* render it runs after
PositionEffect(view, list, context) ==
    IF ~view.photoTaken THEN takePhoto(view, list, context)
    ELSE [view |-> view, captures |-> list]

\* the outcomes of Camera.getPhoto
CameraFailures == {"cancelled", "denied", "empty"}
CameraOutcomes == CameraFailures \cup {"photo"}

\* the titles of the toasts of takePhoto
NoToast == ""
ToastPhotoCaptured == "Photo Captured"
ToastError == "Error"
ToastCameraError == "Camera Error"
ToastAiDisabledThisSession == "AI Disabled This Session"
ToastAiEnhancement == "AI Enhancement"
ToastAiComplete == "AI Enhancement Complete"
ToastAiDisabled == "AI Enhancement Disabled"

\* a failed capture that goes on to the next shot with an empty photo
captureFailed_movesOn(i, title) ==
    /\ cameraView' = IF captures[i].live
                     THEN [cameraView EXCEPT !.isLoading = FALSE, !.isProcessing = FALSE]
                     ELSE cameraView
    /\ captures' = Remove(captures, i)
    /\ toast' = title
    /\ IF stage = PHOTO_CAPTURE
       THEN handlePhotoTaken(NoPhotoUri)
       ELSE UNCHANGED <<stage, router, session, archive, forms, host>>
    /\ UNCHANGED <<aiUpscaleDisabled, aiFailed, managerPhotos, backend>>

\* the catch block of takePhoto, and img.onerror: the spinner is taken
\* away and a toast is shown (none when the user cancelled)
captureFailed(i, title) ==
    /\ cameraView' = IF captures[i].live
                     THEN [cameraView EXCEPT !.isLoading = FALSE, !.isProcessing = FALSE]
                     ELSE cameraView
    /\ captures' = Remove(captures, i)
    /\ toast' = title
    /\ UNCHANGED <<stage, router, session, archive, forms, host, aiUpscaleDisabled, aiFailed,
                   managerPhotos, backend>>

\* the end of img.onload: the photo is offered for confirmation
captureReady(i, finalPhotoUri) ==
    /\ cameraView' = IF captures[i].live
                     THEN [cameraView EXCEPT !.photoUri = finalPhotoUri, !.photoTaken = TRUE,
                                             !.isProcessing = FALSE]
                     ELSE cameraView
    /\ captures' = Remove(captures, i)
    /\ UNCHANGED <<stage, router, session, archive, forms, host, managerPhotos, backend>>

\* Camera.getPhoto settles: a rejection and a result without dataUrl go
\* to the catch block; with a dataUrl the image is given to an Image to
\* decode and setIsLoading(false) is called
getPhotoSettles(i, outcome) ==
    /\ captures[i].phase = "camera"
    /\ IF outcome \in CameraFailures
       THEN captureFailed(i, IF outcome = "cancelled" THEN toast ELSE ToastCameraError)
       ELSE /\ cameraView' = IF captures[i].live
                             THEN [cameraView EXCEPT !.isLoading = FALSE]
                             ELSE cameraView
            /\ captures' = [captures EXCEPT ![i].phase = "decode",
                                            ![i].url = dataUrl(captures[i].context)]
            /\ UNCHANGED <<stage, router, session, archive, forms, host, aiUpscaleDisabled,
                           toast, aiFailed, managerPhotos, backend>>

\* img.onerror
imgOnError(i) ==
    /\ captures[i].phase = "decode"
    /\ captureFailed(i, ToastError)

\* img.onload up to its await: with the enhancement enabled and not
\* disabled for this browser session the upscaler is started, otherwise
\* the camera image is the photo
imgOnLoad(i) ==
    /\ captures[i].phase = "decode"
    /\ IF cameraView.aiEnhanceEnabled /\ ~aiUpscaleDisabled
       THEN /\ cameraView' = IF captures[i].live
                             THEN [cameraView EXCEPT !.isProcessing = TRUE]
                             ELSE cameraView
            /\ captures' = [captures EXCEPT ![i].phase = "upscale"]
            /\ toast' = ToastAiEnhancement
            /\ UNCHANGED <<stage, router, session, archive, forms, host, aiUpscaleDisabled,
                           aiFailed, managerPhotos, backend>>
       ELSE /\ captureReady(i, captures[i].url)
            /\ toast' = IF cameraView.aiEnhanceEnabled THEN ToastAiDisabledThisSession
                        ELSE ToastPhotoCaptured
            /\ UNCHANGED <<aiUpscaleDisabled, aiFailed>>

\* upscaleImage settles; when it rejects, sessionStorage.setItem is tried
\* and what it throws is swallowed
upscaleSettles(i, rejected, setItemThrows) ==
    /\ captures[i].phase = "upscale"
    /\ IF rejected
       THEN /\ aiFailed' = TRUE
            /\ aiUpscaleDisabled' = IF setItemThrows THEN aiUpscaleDisabled ELSE TRUE
            /\ toast' = ToastAiDisabled
            /\ captureReady(i, captures[i].url)
       ELSE /\ captureReady(i, upscaleImage(captures[i].url))
            /\ toast' = ToastAiComplete
            /\ UNCHANGED <<aiUpscaleDisabled, aiFailed>>

\* the round button: onClick={takePhoto}, disabled={isLoading || isProcessing}
shutterButton ==
    /\ stage = PHOTO_CAPTURE
    /\ ~cameraView.photoTaken
    /\ ~(cameraView.isLoading \/ cameraView.isProcessing)
    /\ Len(captures) < MaxCaptures
    /\ LET called == takePhoto(cameraView, captures, <<currentPallet, currentSide>>)
       IN  cameraView' = called.view /\ captures' = called.captures
    /\ UNCHANGED <<stage, router, session, archive, forms, host, aiUpscaleDisabled, toast,
                   aiFailed, managerPhotos, backend>>

retakePhoto ==
    /\ stage = PHOTO_CAPTURE
    /\ cameraView.photoTaken
    /\ cameraView' = [cameraView EXCEPT !.photoTaken = FALSE, !.photoUri = NoPhotoUri]
    /\ UNCHANGED <<stage, router, session, archive, forms, host, captures, aiUpscaleDisabled,
                   toast, aiFailed, managerPhotos, backend>>

\* what is left of the camera after handlePhotoTaken or handleBack: at
\* the gallery CameraView is gone, its hooks with it, and its calls of
\* takePhoto go on without a component; otherwise the position effect
\* runs with the hooks as the handler left them
afterMove(view) ==
    IF stage' # PHOTO_CAPTURE
    THEN /\ cameraView' = InitialCameraView(view.aiEnhanceEnabled)
         /\ captures' = [i \in 1..Len(captures) |-> [captures[i] EXCEPT !.live = FALSE]]
    ELSE LET ran == PositionEffect(view, captures, <<currentPallet', currentSide'>>)
         IN  /\ Len(ran.captures) <= MaxCaptures
             /\ cameraView' = ran.view
             /\ captures' = ran.captures

\* the Confirm button: with a photoUri the hooks are reset and
\* onPhotoTaken, which is handlePhotoTaken of PalletApp, is called
confirmPhoto ==
    /\ stage = PHOTO_CAPTURE
    /\ cameraView.photoTaken
    /\ IF cameraView.photoUri # NoPhotoUri
       THEN /\ handlePhotoTaken(cameraView.photoUri)
            /\ afterMove([cameraView EXCEPT !.photoTaken = FALSE, !.photoUri = NoPhotoUri])
            /\ UNCHANGED <<aiUpscaleDisabled, toast, aiFailed, managerPhotos, backend>>
       ELSE UNCHANGED vars

\* the Back button of the header while CameraView is shown
backFromCamera ==
    /\ stage = PHOTO_CAPTURE
    /\ showBackButton
    /\ handleBack
    /\ afterMove(cameraView)
    /\ UNCHANGED <<aiUpscaleDisabled, toast, aiFailed, managerPhotos, backend>>


\* no camera, no photo in the manager, no upload: the state of these
\* parts while nothing has used them
CameraIdle ==
    /\ cameraView = InitialCameraView(TRUE)
    /\ captures = <<>>
    /\ aiUpscaleDisabled = FALSE
    /\ toast = NoToast
    /\ aiFailed = FALSE
ManagerIdle == managerPhotos = <<>>
BackendIdle == supabase = FALSE /\ isUploading = FALSE /\ uploads = <<>>
Idle == CameraIdle /\ ManagerIdle /\ BackendIdle

----------------------------------------------------------------------------
(* PalletProvider: the upload to the backend                               *)

\* the effect that creates the client: the import has resolved and the
\* environment names a URL and a key
initSupabase ==
    /\ mounted /\ ~supabase
    /\ supabase' = TRUE
    /\ UNCHANGED <<stage, router, session, archive, forms, host, camera, managerPhotos,
                   isUploading, uploads>>

\* a call of uploadPhotosToSupabase with the state of its render: what it
\* saw (client, photos, customerName, poNumber), where it is (phase, left:
\* the photos the loop has not reached yet), what the backend did
\* (contacted, created, threw, photoFailed) and what the call returned
\* (<<>> while it runs)
UploadCall ==
    [client |-> supabase, photos |-> BagCardinality(photos), customerName |-> customerName,
     poNumber |-> poNumber, phase |-> "session", left |-> BagCardinality(photos),
     contacted |-> FALSE, created |-> FALSE, threw |-> FALSE, photoFailed |-> FALSE,
     result |-> <<>>]

SessionOutcomes == {"row", "error", "throws"}
PhotoOutcomes == {"stored", "uploadError", "photoError", "throws"}

\* the call up to its first await: false at once when the guard fails,
\* else setIsUploading(true) and the insert of the session row is sent
uploadPhotosToSupabase ==
    /\ mounted
    /\ Len(uploads) < MaxUploads
    /\ IF ~supabase \/ BagCardinality(photos) = 0 \/ customerName = EmptyString
          \/ poNumber = EmptyString
       THEN /\ uploads' = Append(uploads, [UploadCall EXCEPT !.phase = "returned",
                                                             !.result = <<FALSE>>])
            /\ UNCHANGED isUploading
       ELSE /\ isUploading' = TRUE
            /\ uploads' = Append(uploads, [UploadCall EXCEPT !.contacted = TRUE])
    /\ UNCHANGED <<stage, router, session, archive, forms, host, camera, managerPhotos,
                   supabase>>

\* the insert of the session row settles: with a row the loop over the
\* photos starts, with an error or without data the call returns false,
\* a rejection goes to the catch block; finally setIsUploading(false)
sessionInsertSettles(i, outcome) ==
    /\ uploads[i].phase = "session"
    /\ IF outcome = "row"
       THEN /\ uploads' = [uploads EXCEPT ![i].phase = "photos", ![i].created = TRUE]
            /\ UNCHANGED isUploading
       ELSE /\ uploads' = [uploads EXCEPT ![i].phase = "returned",
                                          ![i].threw = (outcome = "throws"),
                                          ![i].result = <<FALSE>>]
            /\ isUploading' = FALSE
    /\ UNCHANGED <<stage, router, session, archive, forms, host, camera, managerPhotos,
                   supabase>>

\* one round of the loop that returns false when the upload or the insert
\* of the photo fails
photoSettles_stopsOnError(i, outcome) ==
    /\ uploads[i].phase = "photos"
    /\ IF outcome # "stored"
       THEN /\ uploads' = [uploads EXCEPT ![i].phase = "returned",
                                          ![i].threw = (outcome = "throws"),
                                          ![i].photoFailed = (outcome # "throws"),
                                          ![i].result = <<FALSE>>]
            /\ isUploading' = FALSE
       ELSE IF uploads[i].left = 1
       THEN /\ uploads' = [uploads EXCEPT ![i].phase = "returned", ![i].left = 0,
                                          ![i].result = <<TRUE>>]
            /\ isUploading' = FALSE
       ELSE /\ uploads' = [uploads EXCEPT ![i].left = @ - 1]
            /\ UNCHANGED isUploading
    /\ UNCHANGED <<stage, router, session, archive, forms, host, camera, managerPhotos,
                   supabase>>

\* one round of the loop over the photos: fetch, storage upload and record
\* insert.  A rejection of any of them goes to the catch block and the
\* call returns false; an upload error skips the photo, an insert error is
\* logged; after the last photo the call returns true; finally
\* setIsUploading(false)
photoSettles(i, outcome) ==
    /\ uploads[i].phase = "photos"
    /\ IF outcome = "throws"
       THEN /\ uploads' = [uploads EXCEPT ![i].phase = "returned", ![i].threw = TRUE,
                                          ![i].result = <<FALSE>>]
            /\ isUploading' = FALSE
       ELSE IF uploads[i].left = 1
       THEN /\ uploads' = [uploads EXCEPT ![i].phase = "returned", ![i].left = 0,
                                          ![i].photoFailed = (@ \/ outcome # "stored"),
                                          ![i].result = <<TRUE>>]
            /\ isUploading' = FALSE
       ELSE /\ uploads' = [uploads EXCEPT ![i].left = @ - 1,
                                          ![i].photoFailed = (@ \/ outcome # "stored")]
            /\ UNCHANGED isUploading
    /\ UNCHANGED <<stage, router, session, archive, forms, host, camera, managerPhotos,
                   supabase>>

----------------------------------------------------------------------------
(* PhotoMemoryManager                                                      *)
(* The Map is the sequence of its values in insertion order.  Keys are     *)
(* opaque strings that are only compared, so a key is named by the entry   *)
(* that holds it: key i is the key of entry i, NoKey a key the Map does    *)
(* not hold.                                                               *)

maxPhotos == 20

NoKey == 0

\* Map.has
MapHas(list, key) == key \in 1..Len(list)

\* the entries at the positions in keep, in the order of the list
EntriesAt(list, keep) ==
    LET kept[i \in 0..Len(list)] ==
            IF i = 0 THEN <<>>
            ELSE IF i \in keep THEN Append(kept[i - 1], list[i]) ELSE kept[i - 1]
    IN  kept[Len(list)]

\* the position of entry i in Array.from(entries).sort by lastAccessed:
\* the sort is stable, entries of one time keep the order of the Map
SortedPosition(list, i) ==
    1 + Cardinality({j \in 1..Len(list) :
                        \/ list[j].lastAccessed < list[i].lastAccessed
                        \/ (list[j].lastAccessed = list[i].lastAccessed /\ j < i)})

\* Math.ceil(entries.length * 0.25)
removeCount(length) == (length + 3) \div 4

\* the entries cleanupOldPhotos leaves: all but the first removeCount of
\* the sorted array
Survivors(list) ==
    {i \in 1..Len(list) : SortedPosition(list, i) > removeCount(Len(list))}

cleanupOldPhotos(list) == EntriesAt(list, Survivors(list))

\* where the key of entry i of the list is found after the entries outside
\* keep are deleted
KeyAfter(keep, key) ==
    IF key \in keep THEN Cardinality({j \in keep : j <= key}) ELSE NoKey

\* Map.set: the value of a key the Map holds is replaced where it is, a
\* new key is added at the end
MapSet(list, key, value) ==
    IF MapHas(list, key) THEN [list EXCEPT ![key] = value] ELSE Append(list, value)

\* storePhoto without the cleanup at capacity
storePhoto_noCleanup(key, url) ==
    /\ managerPhotos' = MapSet(managerPhotos, key, [dataUrl |-> url, lastAccessed |-> now])
    /\ UNCHANGED <<stage, router, session, archive, forms, host, camera, backend>>

storePhoto(key, url) ==
    LET full == Len(managerPhotos) >= maxPhotos
        room == IF full THEN cleanupOldPhotos(managerPhotos) ELSE managerPhotos
        held == IF full THEN KeyAfter(Survivors(managerPhotos), key) ELSE key
    IN  /\ managerPhotos' = MapSet(room, held, [dataUrl |-> url, lastAccessed |-> now])
        /\ UNCHANGED <<stage, router, session, archive, forms, host, camera, backend>>

\* getPhoto: the entry found is marked as accessed now
getPhoto(key) ==
    /\ managerPhotos' =
          IF MapHas(managerPhotos, key)
          THEN [managerPhotos EXCEPT ![key].lastAccessed = now]
          ELSE managerPhotos
    /\ UNCHANGED <<stage, router, session, archive, forms, host, camera, backend>>

removePhoto(key) ==
    /\ managerPhotos' = EntriesAt(managerPhotos, (1..Len(managerPhotos)) \ {key})
    /\ UNCHANGED <<stage, router, session, archive, forms, host, camera, backend>>

\* forceCleanup: cleanupOldPhotos, then the hint to the garbage collector
forceCleanup ==
    /\ managerPhotos' = cleanupOldPhotos(managerPhotos)
    /\ UNCHANGED <<stage, router, session, archive, forms, host, camera, backend>>

clearAll ==
    /\ managerPhotos' = <<>>
    /\ UNCHANGED <<stage, router, session, archive, forms, host, camera, backend>>

----------------------------------------------------------------------------
(* The life of the provider                                                *)

\* the state of a provider and of the components inside it before they
\* are mounted and after they are torn down: the initial values of
\* their useState hooks
Pristine ==
    /\ stage' = COUNT_SELECTION
    /\ resetData
    /\ localSessions' = InitialLocalSessions
    /\ count' = EmptyString
    /\ error' = NoError
    /\ errors' = NoErrors

\* the cleanup effect without its return () => clearInterval(intervalId)
Unmount_keepsTimer ==
    /\ mounted
    /\ mounted' = FALSE
    /\ UNCHANGED timers
    /\ Pristine
    /\ UNCHANGED <<router, storage, now, returned, uuids, savedSessions, aside>>

\* the provider is torn down: the function the cleanup effect returned
\* clears its timer, the state of the hooks is gone
Unmount ==
    /\ mounted
    /\ mounted' = FALSE
    /\ timers' = timers - 1
    /\ Pristine
    /\ UNCHANGED <<router, storage, now, returned, uuids, savedSessions, aside>>

\* the provider is mounted with PalletApp inside it.  The effects run in
\* the order they are written, all of them with the state of the first
\* render: loadLocalSessions, then cleanupExpiredSessions, whose
\* localSessions is the initial list, then setInterval; PalletApp's
\* location effect runs for the path the page was opened on.
Mount ==
    /\ ~mounted
    /\ mounted' = TRUE
    /\ \E setItemThrows \in BOOLEAN :
          LET loaded == loadLocalSessions(storage)
              swept == cleanupExpiredSessions(InitialLocalSessions, loaded.sessions,
                                              loaded.item, now, setItemThrows)
          IN  /\ localSessions' = swept.sessions
              /\ storage' = swept.item
    /\ savedSessions' = storage
    /\ timers' = timers + 1
    /\ stage' = LocationEffect("", pathname, COUNT_SELECTION)
    /\ UNCHANGED <<router, session, forms, now, returned, uuids, aside>>

\* the timer of the cleanup effect fires: cleanupExpiredSessions runs, the
\* function of the first render, whose localSessions is the initial list
IntervalFires ==
    /\ timers > 0
    /\ \E setItemThrows \in BOOLEAN :
          LET swept == cleanupExpiredSessions(InitialLocalSessions, localSessions,
                                              storage, now, setItemThrows)
          IN  /\ localSessions' = swept.sessions
              /\ storage' = swept.item
    /\ UNCHANGED <<stage, router, session, forms, host, aside>>

\* a day passes
Tick ==
    /\ now < StartTime + MaxTicks * CleanupIntervalMs
    /\ now' = now + CleanupIntervalMs
    /\ UNCHANGED <<stage, router, session, archive, forms, mounted, timers, returned, uuids,
                   savedSessions, aside>>

----------------------------------------------------------------------------
(* The wizard as the user drives it                                        *)

Init ==
    \E path \in Paths, item \in StoredInputs :
        /\ entries = <<path>>
        /\ idx = 1
        /\ stage = LocationEffect("", path, COUNT_SELECTION)
        /\ totalPallets = 0
        /\ photos = EmptyBag
        /\ customerName = EmptyString
        /\ poNumber = EmptyString
        /\ currentPallet = 1
        /\ currentSide = 1
        /\ localSessions = loadLocalSessions(item).sessions
        /\ storage = loadLocalSessions(item).item
        /\ count = EmptyString
        /\ error = NoError
        /\ errors = NoErrors
        /\ mounted = TRUE
        /\ timers = 1
        /\ now = StartTime
        /\ returned = <<>>
        /\ uuids = 0
        /\ savedSessions = item
        /\ Idle

PhotoTakenFrom(uris) ==
    /\ stage = PHOTO_CAPTURE
    /\ \E photoUri \in uris : handlePhotoTaken(photoUri)
    /\ UNCHANGED aside
PhotoTaken == PhotoTakenFrom(PhotoUris)
Back == showBackButton /\ handleBack /\ UNCHANGED aside
Restart == stage = GALLERY /\ handleRestart /\ UNCHANGED aside
GoToHistory == showHistoryButton /\ goToHistory /\ UNCHANGED aside
CountChange ==
    /\ stage = COUNT_SELECTION
    /\ \E value \in CountInputs : handleCountChange(value)
    /\ UNCHANGED aside
CountContinue ==
    stage = COUNT_SELECTION /\ PalletCountSelector_handleContinue /\ UNCHANGED aside
NameChange ==
    /\ stage = CUSTOMER_INFO
    /\ \E name \in TextInputs : setCustomerName(name)
    /\ UNCHANGED aside
PoChange ==
    /\ stage = CUSTOMER_INFO
    /\ \E po \in TextInputs : setPoNumber(po)
    /\ UNCHANGED aside
InfoContinue ==
    stage = CUSTOMER_INFO /\ CustomerInfoForm_handleContinue /\ UNCHANGED aside
ReturnToCamera == stage = HISTORY /\ ReturnToCameraLink /\ UNCHANGED aside
BrowserBack == Traverse(-1) /\ UNCHANGED aside
BrowserForward == Traverse(1) /\ UNCHANGED aside

Next ==
    \/ PhotoTaken
    \/ Back
    \/ Restart
    \/ GoToHistory
    \/ CountChange
    \/ CountContinue
    \/ NameChange
    \/ PoChange
    \/ InfoContinue
    \/ ReturnToCamera
    \/ BrowserBack
    \/ BrowserForward

Spec == Init /\ [][Next]_vars

----------------------------------------------------------------------------
(* Capture runs                                                            *)

\* the wizard as it stands when the camera opens for the first shot of a
\* session of n pallets
FirstShot(n) ==
    /\ entries = <<HomePath>>
    /\ idx = 1
    /\ stage = PHOTO_CAPTURE
    /\ totalPallets = n
    /\ photos = EmptyBag
    /\ customerName = <<"a">>
    /\ poNumber = <<"a">>
    /\ currentPallet = 1
    /\ currentSide = 1
    /\ localSessions = <<StoredSession>>
    /\ storage = Item(<<StoredSession>>)
    /\ count = EmptyString
    /\ error = NoError
    /\ errors = NoErrors
    /\ mounted = TRUE
    /\ timers = 1
    /\ now = StartTime
    /\ returned = <<>>
    /\ uuids = 0
    /\ savedSessions = Item(<<StoredSession>>)

\* every allowed pallet count, photoCaptured events only
InitSeq == \E n \in 1..MaxPalletsPerSession : FirstShot(n) /\ Idle
NextSeq == PhotoTaken
SpecSeq == InitSeq /\ [][NextSeq]_vars

\* photoCaptured, back and restart events, with two different payloads
InitRetake == \E n \in 1..MaxCount : FirstShot(n) /\ Idle
Retake == PhotoTakenFrom(RetakeUris)
NextRetake ==
    \/ Retake
    \/ Back
    \/ Restart
SpecRetake == InitRetake /\ [][NextRetake]_vars

----------------------------------------------------------------------------
(* The archive: a provider that is mounted and torn down, a clock, the     *)
(* timer of the cleanup effect, and a one-pallet session that is driven    *)
(* through the wizard, finalized and deleted                               *)

InitStoreFrom(items) ==
    \E item \in items :
        /\ entries = <<HomePath>>
        /\ idx = 1
        /\ stage = COUNT_SELECTION
        /\ totalPallets = 0
        /\ photos = EmptyBag
        /\ customerName = EmptyString
        /\ poNumber = EmptyString
        /\ currentPallet = 1
        /\ currentSide = 1
        /\ localSessions = InitialLocalSessions
        /\ storage = item
        /\ count = EmptyString
        /\ error = NoError
        /\ errors = NoErrors
        /\ mounted = FALSE
        /\ timers = 0
        /\ now = StartTime
        /\ returned = <<>>
        /\ uuids = 0
        /\ savedSessions = NoItem
        /\ Idle

\* the provider before it is mounted, on an archive this program wrote
InitStore == InitStoreFrom(ArchiveInputs)

\* saveSessionToLocalStorage is offered by the context to every component
\* under the provider
Finalize ==
    /\ mounted
    /\ uuids < MaxRecords
    /\ \E setItemThrows \in BOOLEAN : saveSessionToLocalStorage(setItemThrows)
    /\ UNCHANGED aside

\* HistoryView.handleDelete, and any other caller of deleteLocalSession
Delete ==
    /\ mounted
    /\ \E sessionId \in SessionIds, setItemThrows \in BOOLEAN :
          deleteLocalSession(sessionId, setItemThrows)
    /\ UNCHANGED aside

TypeOne ==
    /\ mounted /\ stage = COUNT_SELECTION
    /\ handleCountChange(NumberToString(1))
    /\ UNCHANGED aside
TypeName ==
    /\ mounted /\ stage = CUSTOMER_INFO
    /\ \E name \in {EmptyString, <<"a">>} : setCustomerName(name)
    /\ UNCHANGED aside
TypePo == mounted /\ stage = CUSTOMER_INFO /\ setPoNumber(<<"a">>) /\ UNCHANGED aside

NextStore ==
    \/ Mount
    \/ Unmount
    \/ Tick
    \/ IntervalFires
    \/ Finalize
    \/ Delete
    \/ TypeOne
    \/ TypeName
    \/ TypePo
    \/ (mounted /\ CountContinue)
    \/ (mounted /\ InfoContinue)
    \/ (mounted /\ PhotoTaken)

SpecStore == InitStore /\ [][NextStore]_vars

\* the same with the timer and the clock running as they do while the
\* process lives: a day passes, and an armed timer fires
SpecStoreFair == SpecStore /\ WF_vars(Mount) /\ WF_vars(Tick) /\ WF_vars(IntervalFires)

\* the provider mounted on whatever localStorage holds, torn down and
\* mounted again, with the clock, the timer and the delete buttons of the
\* history
InitLoad == InitStoreFrom(StoreInputs)
NextLoad ==
    \/ Mount
    \/ Unmount
    \/ Tick
    \/ IntervalFires
    \/ Delete

SpecLoad == InitLoad /\ [][NextLoad]_vars

\* saveSessionToLocalStorage called at any point of the wizard, the
\* excursions to the history included
NextSave ==
    \/ Finalize
    \/ TypeOne
    \/ TypeName
    \/ TypePo
    \/ CountContinue
    \/ InfoContinue
    \/ PhotoTaken
    \/ GoToHistory
    \/ Back
    \/ BrowserBack

SpecSave == Init /\ [][NextSave]_vars

\* the whole wizard with finalize and delete called at any point of it,
\* and the page closed and opened again
NextTrip ==
    \/ Finalize
    \/ Delete
    \/ Mount
    \/ Unmount
    \/ TypeOne
    \/ TypeName
    \/ TypePo
    \/ (mounted /\ CountContinue)
    \/ (mounted /\ InfoContinue)
    \/ (mounted /\ PhotoTaken)
    \/ (mounted /\ Back)
    \/ (mounted /\ Restart)

SpecTrip == InitStore /\ [][NextTrip]_vars

\* the keys callers pass: a key the Map does not hold and the keys of its
\* first two entries and of its last entry
ManagerKeys == {NoKey, 1, 2, Len(managerPhotos)}

\* the singleton of the module, used from an empty Map on, with the clock
\* of Date.now() standing still or moving between the calls
InitManager == InitStoreFrom({NoItem})
StorePhoto == \E key \in ManagerKeys, url \in PhotoUris : storePhoto(key, url)
GetPhoto == \E key \in ManagerKeys : getPhoto(key)
RemovePhoto == \E key \in ManagerKeys : removePhoto(key)
NextManager ==
    \/ StorePhoto
    \/ GetPhoto
    \/ RemovePhoto
    \/ forceCleanup
    \/ clearAll
    \/ Tick

SpecManager == InitManager /\ [][NextManager]_vars

\* CameraView at work on a session of one pallet: the state right after
\* CustomerInfoForm's continue, where CameraView is mounted and its
\* position effect has called takePhoto for pallet 1, side 1
InitCameraWith(enabled) ==
    /\ FirstShot(1)
    /\ cameraView = takePhoto(InitialCameraView(enabled), <<>>, <<1, 1>>).view
    /\ captures = takePhoto(InitialCameraView(enabled), <<>>, <<1, 1>>).captures
    /\ aiUpscaleDisabled = FALSE
    /\ toast = NoToast
    /\ aiFailed = FALSE
    /\ ManagerIdle
    /\ BackendIdle

GetPhotoSettles ==
    \E i \in 1..Len(captures), outcome \in CameraOutcomes : getPhotoSettles(i, outcome)
ImgOnLoad == \E i \in 1..Len(captures) : imgOnLoad(i)
ImgOnError == \E i \in 1..Len(captures) : imgOnError(i)
UpscaleSettles ==
    \E i \in 1..Len(captures), rejected \in BOOLEAN, setItemThrows \in BOOLEAN :
        upscaleSettles(i, rejected, setItemThrows)

\* the component without the enhancement block
InitCamera == InitCameraWith(FALSE)
NextCamera ==
    \/ GetPhotoSettles
    \/ ImgOnLoad
    \/ ImgOnError
    \/ shutterButton
    \/ retakePhoto
    \/ confirmPhoto
    \/ backFromCamera

SpecCamera == InitCamera /\ [][NextCamera]_vars

\* the component with the enhancement block, with a camera that delivers
InitEnhance == InitCameraWith(TRUE)
GetPhotoResolves == \E i \in 1..Len(captures) : getPhotoSettles(i, "photo")
NextEnhance ==
    \/ GetPhotoResolves
    \/ ImgOnLoad
    \/ UpscaleSettles
    \/ confirmPhoto
    \/ backFromCamera

SpecEnhance == InitEnhance /\ [][NextEnhance]_vars

\* the upload: a session of one pallet under a mounted provider, with
\* uploadPhotosToSupabase called at any point, as the context offers it to
\* every component
InitUpload == FirstShot(1) /\ Idle
SessionInsertSettles ==
    \E i \in 1..Len(uploads), outcome \in SessionOutcomes : sessionInsertSettles(i, outcome)
PhotoSettles ==
    \E i \in 1..Len(uploads), outcome \in PhotoOutcomes : photoSettles(i, outcome)
NextUpload ==
    \/ initSupabase
    \/ uploadPhotosToSupabase
    \/ SessionInsertSettles
    \/ PhotoSettles
    \/ PhotoTaken
    \/ Back
    \/ Restart

SpecUpload == InitUpload /\ [][NextUpload]_vars

\* the customer form with values as long as the limits: a one-pallet
\* session is taken to the form, texts of 0, 1, limit - 1, limit and
\* limit + 1 letters are typed, bare or after a blank, and Continue pressed
Repeat(char, n) == [i \in 1..n |-> char]
LengthsAt(limit) == {0, 1, limit - 1, limit, limit + 1}
InputsAt(limit) ==
    {pad \o Repeat("a", n) : pad \in {EmptyString, <<" ">>}, n \in LengthsAt(limit)}
TypeLongName ==
    /\ mounted /\ stage = CUSTOMER_INFO
    /\ \E name \in InputsAt(MaxNameLength) : setCustomerName(name)
    /\ UNCHANGED aside
TypeLongPo ==
    /\ mounted /\ stage = CUSTOMER_INFO
    /\ \E po \in InputsAt(MaxPoLength) : setPoNumber(po)
    /\ UNCHANGED aside
InitValidate == InitStoreFrom({NoItem})
NextValidate ==
    \/ Mount
    \/ TypeOne
    \/ (mounted /\ CountContinue)
    \/ TypeLongName
    \/ TypeLongPo
    \/ (mounted /\ InfoContinue)
    \/ (mounted /\ Back)

SpecValidate == InitValidate /\ [][NextValidate]_vars

----------------------------------------------------------------------------
(* Properties                                                              *)

\* number of photos held for the pair (p, s)
PhotosOf(list, p, s) ==
    BagCardinality([ph \in {x \in DOMAIN list : x.palletIndex = p /\ x.sideIndex = s}
                       |-> list[ph]])

\* place of the pair (p, s) in the order (1,1),(1,2),(1,3),(1,4),(2,1),...
Rank(p, s) == (p - 1) * 4 + s

\* C1: in a run of photoCaptured events from (1,1), for every totalPallets
\* in 1..50, the photos recorded after k captures are those of the first k
\* pairs of (1,1),(1,2),(1,3),(1,4),(2,1),...,(N,4), one each, the next
\* capture is recorded under pair k+1, and the stage is Gallery exactly
\* when all 4N pairs are recorded.
C1_CaptureSequence ==
    LET captured == BagCardinality(photos)
        ranks == {Rank(ph.palletIndex, ph.sideIndex) : ph \in DOMAIN photos}
    IN  /\ \A ph \in DOMAIN photos :
              /\ photos[ph] = 1
              /\ ph.sideIndex \in 1..4
              /\ ph.palletIndex \in 1..totalPallets
        /\ ranks = 1..captured
        /\ IF captured < 4 * totalPallets
           THEN /\ stage = PHOTO_CAPTURE
                /\ currentSide \in 1..4
                /\ Rank(currentPallet, currentSide) = captured + 1
           ELSE /\ stage = GALLERY
                /\ captured = 4 * totalPallets

C1_Witness ==
    /\ stage = GALLERY
    /\ totalPallets = MaxPalletsPerSession
    /\ BagCardinality(photos) = 4 * MaxPalletsPerSession

\* C2: whenever the stage is Gallery, the photo list holds exactly one
\* photo for every (pallet, side) with pallet in 1..totalPallets and side
\* in 1..4, and no other photo.
C2_GalleryComplete ==
    stage = GALLERY =>
        /\ \A p \in 1..totalPallets : \A sd \in 1..4 : PhotosOf(photos, p, sd) = 1
        /\ BagCardinality(photos) = 4 * totalPallets

OnePhotoPerPair(list) ==
    \A ph \in DOMAIN list : PhotosOf(list, ph.palletIndex, ph.sideIndex) = 1

\* the photos of the pairs other than (p, s)
OtherPhotos(list, p, s) ==
    [ph \in {x \in DOMAIN list : ~(x.palletIndex = p /\ x.sideIndex = s)} |-> list[ph]]

\* C4: after any sequence of photoCaptured, back and restart events the
\* photo list holds at most one photo per (palletIndex, sideIndex); a
\* capture leaves exactly one photo for the current pair, the one just
\* captured, and leaves the photos of every other pair as they were.
C4_LastWriteWins ==
    /\ []OnePhotoPerPair(photos)
    /\ [][\A uri \in RetakeUris :
            (stage = PHOTO_CAPTURE /\ handlePhotoTaken(uri)) =>
                /\ PhotosOf(photos', currentPallet, currentSide) = 1
                /\ CopiesIn([palletIndex |-> currentPallet, sideIndex |-> currentSide,
                             photoUri |-> uri], photos') = 1
                /\ OtherPhotos(photos', currentPallet, currentSide)
                     = OtherPhotos(photos, currentPallet, currentSide)]_vars

\* the photo of (1,1) is the second payload while a later pair still holds
\* the first one, and the wizard stands behind both
C4_Witness ==
    /\ stage = PHOTO_CAPTURE
    /\ currentPallet = 1 /\ currentSide = 2
    /\ CopiesIn([palletIndex |-> 1, sideIndex |-> 1, photoUri |-> "uri2"], photos) = 1
    /\ CopiesIn([palletIndex |-> 1, sideIndex |-> 1, photoUri |-> "uri1"], photos) = 0
    /\ CopiesIn([palletIndex |-> 1, sideIndex |-> 2, photoUri |-> "uri1"], photos) = 1

\* C5: at every point (pallet, side) of the capture sequence of a session of
\* totalPallets pallets, back is shown and followed by photoCaptured leads
\* to the same stage and indices unless the point is (1,1), and
\* photoCaptured followed by back does so unless the point is
\* (totalPallets, 4).  The state compared is the wizard's position (stage,
\* currentPallet, currentSide): the photo captured on the way stays in the
\* photo list.
C5_BackInvertsAdvance ==
    (stage = PHOTO_CAPTURE /\ currentPallet \in 1..totalPallets /\ currentSide \in 1..4) =>
        LET here == [stage |-> PHOTO_CAPTURE, currentPallet |-> currentPallet,
                     currentSide |-> currentSide]
            prev == back(stage, currentPallet, currentSide)
            next == advance(currentPallet, currentSide, totalPallets)
        IN  /\ ~(currentPallet = 1 /\ currentSide = 1) =>
                  /\ showBackButton
                  /\ prev.stage = PHOTO_CAPTURE
                  /\ advance(prev.currentPallet, prev.currentSide, totalPallets) = here
            /\ ~(currentPallet = totalPallets /\ currentSide = 4) =>
                  /\ next.stage = PHOTO_CAPTURE
                  /\ ~(next.currentPallet = 1 /\ next.currentSide = 1)
                  /\ back(next.stage, next.currentPallet, next.currentSide) = here

C5_Witness ==
    /\ stage = PHOTO_CAPTURE
    /\ totalPallets = MaxCount
    /\ currentPallet = MaxCount
    /\ currentSide = 1
    /\ PhotosOf(photos, MaxCount, 1) = 1

\* C6: a back event, in whatever stage it is handled, leaves the photo
\* list, totalPallets, customerName and poNumber unchanged.
C6_BackKeepsPhotos ==
    [][handleBack => UNCHANGED <<photos, totalPallets, customerName, poNumber>>]_vars

\* the camera stands at (1,1) again with photos taken: it was left with
\* back events
C6_Witness ==
    /\ stage = PHOTO_CAPTURE
    /\ currentPallet = 1 /\ currentSide = 1
    /\ BagCardinality(photos) >= 2

\* C7: in Capture at (1,1) the back action is available and moves the
\* wizard to CustomerInfo, leaving the indices at (1,1).
C7_BackFromFirstShot ==
    (stage = PHOTO_CAPTURE /\ currentPallet = 1 /\ currentSide = 1) =>
        /\ showBackButton
        /\ back(stage, currentPallet, currentSide)
             = [stage |-> CUSTOMER_INFO, currentPallet |-> 1, currentSide |-> 1]

\* a count that is empty, not a positive integer, or greater than 50
BadCount(c) ==
    \/ c = EmptyString
    \/ ~IsDigitString(c)
    \/ ParseDigits(c, 0, FALSE) < 1
    \/ ParseDigits(c, 0, FALSE) > 50

\* a text that is empty after trimming
Blank(text) == \A i \in 1..Len(text) : text[i] = " "

\* C8: a continue from CountSelection with a count that is empty, not a
\* positive integer or greater than 50, and a continue from CustomerInfo
\* with a customer name or PO number that is empty after trimming, shows a
\* message and leaves the stage, totalPallets, customerName, poNumber,
\* photos, currentPallet and currentSide as they were.
C8_RejectedContinue ==
    [][/\ (CountContinue /\ BadCount(count)) =>
              /\ error' # NoError
              /\ UNCHANGED <<stage, session>>
       /\ (InfoContinue /\ (Blank(customerName) \/ Blank(poNumber))) =>
              /\ errors' # NoErrors
              /\ UNCHANGED <<stage, session>>]_vars

\* a session with a count was begun, and the continue of the customer form
\* was refused for a name of white space only
C8_Witness ==
    /\ stage = CUSTOMER_INFO
    /\ totalPallets = MaxCount
    /\ customerName = <<" ">>
    /\ poNumber = <<" ", "a">>
    /\ errors = [name |-> NameRequired, poNumber |-> NoError]

\* C9: every successful continue from CustomerInfo enters Capture with
\* currentPallet = 1 and currentSide = 1.
C9_ContinueEntersFirstShot ==
    [][(InfoContinue /\ stage' = PHOTO_CAPTURE)
          => (currentPallet' = 1 /\ currentSide' = 1)]_vars

\* C10: after restart from Gallery the stage is CountSelection, the photos
\* are empty, customerName and poNumber are empty, totalPallets is 0,
\* currentPallet and currentSide are 1, and the in-memory and the persisted
\* session records are as before.
C10_RestartClearsSession ==
    [][Restart =>
          /\ stage' = COUNT_SELECTION
          /\ photos' = EmptyBag
          /\ customerName' = EmptyString
          /\ poNumber' = EmptyString
          /\ totalPallets' = 0
          /\ currentPallet' = 1
          /\ currentSide' = 1
          /\ UNCHANGED <<localSessions, storage>>]_vars

\* the wizard is back at the count with a cleared session, one entry
\* further in the browser's history, the archive still holding its record
C10_Witness ==
    /\ stage = COUNT_SELECTION
    /\ entries = <<HomePath, HomePath>>
    /\ idx = 2
    /\ totalPallets = 0
    /\ photos = EmptyBag
    /\ localSessions = <<StoredSession>>
    /\ storage = Item(<<StoredSession>>)

\* C11: History is entered only from CountSelection and left only to
\* CountSelection, and a step that enters or leaves History changes none of
\* totalPallets, customerName, poNumber, photos, currentPallet, currentSide.
C11_HistoryExcursion ==
    [][/\ (stage # HISTORY /\ stage' = HISTORY) => stage = COUNT_SELECTION
       /\ (stage = HISTORY /\ stage' # HISTORY) => stage' = COUNT_SELECTION
       /\ ((stage = HISTORY) # (stage' = HISTORY)) => UNCHANGED session]_vars

\* the session cannot be finalized: no photo, or no customer name, or no
\* PO number
NothingToSave == BagCardinality(photos) = 0 \/ customerName = EmptyString \/ poNumber = EmptyString

\* C12: every call of saveSessionToLocalStorage made while the photo list
\* is empty or customerName or poNumber is empty returns false and leaves
\* the in-memory record list and the storage item as they were, whether it
\* is the first such call or a later one.
C12_RejectedFinalize ==
    [][(Finalize /\ NothingToSave) =>
          /\ returned' = <<FALSE>>
          /\ UNCHANGED <<localSessions, storage>>]_vars

\* a call was refused in the customer form of a session that has photos
\* but no customer name; nothing was ever saved
C12_Witness ==
    /\ stage = CUSTOMER_INFO
    /\ BagCardinality(photos) > 0
    /\ customerName = EmptyString
    /\ poNumber # EmptyString
    /\ returned = <<FALSE>>
    /\ uuids = 0
    /\ localSessions = <<StoredSession>>
    /\ storage = Item(<<StoredSession>>)

\* C13: a call of saveSessionToLocalStorage that returns true, which is
\* what a call with photos, customerName and poNumber returns when the
\* write goes through, leaves the in-memory list and the stored list equal
\* to a new record followed by the records the in-memory list held before,
\* in their order; the new record carries the session's customerName,
\* poNumber, totalPallets and photos.
C13_SuccessfulFinalize ==
    [][(Finalize /\ (returned' = <<TRUE>>
                       \/ (~NothingToSave /\ saveSessionToLocalStorage(FALSE)))) =>
          /\ returned' = <<TRUE>>
          /\ Len(localSessions') = Len(localSessions) + 1
          /\ Tail(localSessions') = localSessions
          /\ storage' = Item(localSessions')
          /\ Head(localSessions').customerName = customerName
          /\ Head(localSessions').poNumber = poNumber
          /\ Head(localSessions').totalPallets = totalPallets
          /\ Head(localSessions').photos = photos
          /\ BagCardinality(photos) > 0]_vars

\* a finished one-pallet session was saved in front of the two records
\* that were loaded at startup
C13_Witness ==
    /\ returned = <<TRUE>>
    /\ stage = GALLERY
    /\ Len(localSessions) = 3
    /\ Tail(localSessions) = <<StoredSession1, StoredSession>>
    /\ Head(localSessions).photos = photos
    /\ BagCardinality(photos) = 4
    /\ storage = Item(localSessions)

\* C14: when setItem throws inside saveSessionToLocalStorage, the call
\* returns false, the in-memory list is the new record followed by the
\* records it held before, the storage item is what it was, and photos,
\* customerName, poNumber, totalPallets, currentPallet and currentSide are
\* what they were, so that the session can still be finalized.
C14_FailedWrite ==
    [][(Finalize /\ ~NothingToSave /\ saveSessionToLocalStorage(TRUE)) =>
          /\ returned' = <<FALSE>>
          /\ Len(localSessions') = Len(localSessions) + 1
          /\ Tail(localSessions') = localSessions
          /\ Head(localSessions').photos = photos
          /\ Head(localSessions').customerName = customerName
          /\ Head(localSessions').poNumber = poNumber
          /\ UNCHANGED storage
          /\ UNCHANGED session
          /\ ~NothingToSave']_vars

\* the write of a finished session failed: the list in memory is one
\* record ahead of the two records in storage
C14_Witness ==
    /\ returned = <<FALSE>>
    /\ stage = GALLERY
    /\ BagCardinality(photos) = 4
    /\ Len(localSessions) = 3
    /\ Head(localSessions).photos = photos
    /\ Tail(localSessions) = <<StoredSession1, StoredSession>>
    /\ storage = Item(<<StoredSession1, StoredSession>>)

\* C15: a call of saveSessionToLocalStorage that returns true leaves the
\* session reset to its defaults: photos empty, customerName and poNumber
\* empty, totalPallets 0, currentPallet and currentSide 1; a further call
\* without new captures is therefore refused.
C15_FinalizeDestroysSession ==
    [][(Finalize /\ returned' = <<TRUE>>) =>
          /\ photos' = EmptyBag
          /\ customerName' = EmptyString
          /\ poNumber' = EmptyString
          /\ totalPallets' = 0
          /\ currentPallet' = 1
          /\ currentSide' = 1
          /\ NothingToSave']_vars

\* a record that fails the guard as the claim words it: id, customerName,
\* poNumber or totalPallets missing or empty, photos not a list, timestamp
\* not a number
FailsGuard(r) ==
    LET fields == DOMAIN r IN
    \/ {"id", "customerName", "poNumber", "totalPallets", "photos", "timestamp"} \ fields # {}
    \/ r.id = ""
    \/ r.customerName = EmptyString
    \/ r.poNumber = EmptyString
    \/ r.totalPallets = 0

\* the stored value is a list of records that all pass the guard
WellFormed(item) ==
    /\ item.kind = "array"
    /\ \A i \in 1..Len(item.sessions) : ~FailsGuard(item.sessions[i])

\* C16 as stated: when the provider is mounted on a stored value that is
\* not parseable, is not a list, or holds a record that fails the guard,
\* the in-memory list is empty afterwards and the storage entry is removed;
\* on any other stored value the in-memory list is the stored list.
C16_LoadAllOrNothing ==
    [][Mount =>
          IF storage = NoItem
          THEN localSessions' = <<>> /\ storage' = NoItem
          ELSE IF WellFormed(storage)
               THEN localSessions' = storage.sessions /\ storage' = storage
               ELSE localSessions' = <<>> /\ storage' = NoItem]_vars

\* C16 amended: a stored value that is absent or the empty text is left as
\* it is, with an empty in-memory list; a non-empty stored value that is
\* not parseable, is not a list, or holds a record that fails the guard
\* leaves the in-memory list empty and the storage entry removed; any other
\* stored value is loaded whole, the in-memory list being the stored list.
C16_LoadAllOrNothingAmended ==
    [][Mount =>
          IF storage = NoItem \/ storage = RawText(EmptyString)
          THEN localSessions' = <<>> /\ storage' = storage
          ELSE IF WellFormed(storage)
               THEN localSessions' = storage.sessions /\ storage' = storage
               ELSE localSessions' = <<>> /\ storage' = NoItem]_vars

\* the provider was mounted on two records of which the second has no
\* poNumber: nothing is in memory, nothing is left in storage
C16_Witness ==
    /\ mounted
    /\ savedSessions = Item(<<StoredSession1, Without("poNumber")>>)
    /\ localSessions = <<>>
    /\ storage = NoItem

\* the records a run of the sweep finds in the store: the in-memory list
\* for a scheduled run, the list just loaded for the run at load time
SweptList ==
    IF mounted THEN localSessions
    ELSE IF ~Falsy(storage) /\ WellFormed(storage) THEN storage.sessions ELSE <<>>

\* C17: after the run of the sweep at load time and after every scheduled
\* run, the in-memory record list holds no record with
\* now - timestamp >= 7 days and holds every record the run found with
\* now - timestamp < 7 days.
C17_SweepPurges ==
    [][(Mount \/ IntervalFires) =>
          /\ \A i \in 1..Len(localSessions') :
                now - localSessions'[i].timestamp < 7 * 24 * 60 * 60 * 1000
          /\ \A i \in 1..Len(SweptList) :
                now - SweptList[i].timestamp < 7 * 24 * 60 * 60 * 1000
                    => \E j \in 1..Len(localSessions') : localSessions'[j] = SweptList[i]]_vars

\* the in-memory list of a mounted provider holds a record of that id
Holds(sessionId) ==
    mounted /\ \E i \in 1..Len(localSessions) : localSessions[i].id = sessionId

\* it holds a record of that id that is older than 7 days
HoldsExpired(sessionId) ==
    mounted /\ \E i \in 1..Len(localSessions) :
                  /\ localSessions[i].id = sessionId
                  /\ now - localSessions[i].timestamp > 7 * 24 * 60 * 60 * 1000

\* C18: while the provider is mounted, with the clock running and the
\* timer firing, every record of the in-memory list, loaded at startup or
\* saved later, that has become older than 7 days is eventually gone from
\* the list.
C18_EventuallyPurged ==
    \A sessionId \in SessionIds : HoldsExpired(sessionId) ~> ~Holds(sessionId)

\* C19: one timer is armed while the provider is mounted and none when it
\* is not; mounting arms it, tearing the provider down clears it, and no
\* save, delete or run of the sweep changes the number of armed timers.
C19_OneTimer ==
    /\ [](timers = IF mounted THEN 1 ELSE 0)
    /\ [][/\ (Finalize \/ Delete \/ IntervalFires) => timers' = timers
          /\ timers' > timers => (Mount /\ timers = 0)
          /\ timers' < timers => Unmount]_vars

\* the provider is mounted for the second time at least: what it loaded
\* is a list that holds a record saved by an earlier mount
C19_Witness ==
    /\ mounted
    /\ timers = 1
    /\ savedSessions.kind = "array"
    /\ \E i \in 1..Len(savedSessions.sessions) :
          /\ "id" \in DOMAIN savedSessions.sessions[i]
          /\ savedSessions.sessions[i].id = uuidv4(1)

\* the records of a storage item, none when it is not an array
StoredList(item) == IF item.kind = "array" THEN item.sessions ELSE <<>>

\* the records of a list whose id is not sessionId, in their order
Others(list, sessionId) == SelectSeq(list, LAMBDA r : r.id # sessionId)

\* no record of that id is in the list after, and the other records of the
\* list before are in the list after, unchanged and in the same order
RemovedFrom(before, after, sessionId) ==
    /\ \A i \in 1..Len(after) : after[i].id # sessionId
    /\ SelectSeq(after, LAMBDA r : \E i \in 1..Len(before) : before[i] = r)
         = Others(before, sessionId)

\* C20 as stated: after deleteLocalSession(id) with an id that the
\* in-memory list holds, no record of that id is in the in-memory list or
\* in storage, and the other records are in both, unchanged and in the
\* same relative order.
C20_DeleteRemoves ==
    [][\A sessionId \in SessionIds :
          (Holds(sessionId)
             /\ \E setItemThrows \in BOOLEAN : deleteLocalSession(sessionId, setItemThrows)) =>
              /\ RemovedFrom(localSessions, localSessions', sessionId)
              /\ RemovedFrom(StoredList(storage), StoredList(storage'), sessionId)]_vars

\* C20 amended: after deleteLocalSession(id) with an id that the in-memory
\* list holds, no record of that id is in the in-memory list and its other
\* records are there, unchanged and in the same relative order; when the
\* write goes through, storage holds exactly that list; when setItem
\* throws, storage is what it was.
C20_DeleteRemovesAmended ==
    [][\A sessionId \in SessionIds :
          /\ (Holds(sessionId) /\ deleteLocalSession(sessionId, FALSE)) =>
                /\ RemovedFrom(localSessions, localSessions', sessionId)
                /\ Len(localSessions') <= Len(localSessions)
                /\ storage' = Item(localSessions')
          /\ (Holds(sessionId) /\ deleteLocalSession(sessionId, TRUE)) =>
                /\ RemovedFrom(localSessions, localSessions', sessionId)
                /\ Len(localSessions') <= Len(localSessions)
                /\ UNCHANGED storage]_vars

\* the middle one of three records was deleted: the saved record and the
\* older loaded record are left, in that order, in memory and in storage
C20_Witness ==
    /\ mounted
    /\ savedSessions = Item(<<StoredSession1, StoredSession>>)
    /\ Len(localSessions) = 2
    /\ localSessions[1].id = uuidv4(1)
    /\ localSessions[2] = StoredSession
    /\ storage = Item(localSessions)

----------------------------------------------------------------------------
(* C21                                                                     *)

\* C21: in every reachable state of the store, also after an earlier
\* failed write, deleteLocalSession(id) with an id that no record of the
\* in-memory list has leaves the in-memory list and the list in storage as
\* they were.
C21_DeleteAbsent ==
    [][\A sessionId \in SessionIds :
          (~Holds(sessionId)
             /\ \E setItemThrows \in BOOLEAN : deleteLocalSession(sessionId, setItemThrows)) =>
              /\ localSessions' = localSessions
              /\ StoredList(storage') = StoredList(storage)]_vars

----------------------------------------------------------------------------
(* C22                                                                     *)

\* the wizard moves on: to a later shot of the sequence, or to the gallery
MovesOn ==
    \/ Rank(currentPallet', currentSide') > Rank(currentPallet, currentSide)
    \/ (stage = PHOTO_CAPTURE /\ stage' = GALLERY)

\* a capture attempt ends without a photo: Camera.getPhoto rejects (an
\* error, or the user cancelled), it returns no dataUrl, or the image
\* does not decode
CaptureFails ==
    \E i \in 1..Len(captures) :
        \/ \E outcome \in CameraFailures : getPhotoSettles(i, outcome)
        \/ imgOnError(i)

\* C22: a capture attempt that fails changes neither currentPallet,
\* currentSide, the stage nor the photo list; the wizard moves on only
\* in a step that confirms a captured photo that is not empty and records
\* it for the shot it leaves.
C22_FailedCaptureStays ==
    /\ [][CaptureFails => UNCHANGED <<currentPallet, currentSide, stage, photos>>]_vars
    /\ [][MovesOn =>
            /\ cameraView.photoTaken
            /\ cameraView.photoUri # NoPhotoUri
            /\ photos' = addPhoto(photos, currentPallet, currentSide, cameraView.photoUri)]_vars

\* the first photo is confirmed and the capture the wizard then started
\* for side 2 has failed with a camera error: the wizard waits at side 2
\* with the one photo, no capture in flight and nothing to confirm
C22_Witness ==
    /\ stage = PHOTO_CAPTURE
    /\ currentPallet = 1 /\ currentSide = 2
    /\ BagCardinality(photos) = 1
    /\ toast = ToastCameraError
    /\ captures = <<>>
    /\ ~cameraView.photoTaken /\ ~cameraView.isLoading

----------------------------------------------------------------------------
(* C23                                                                     *)

\* the calls of uploadPhotosToSupabase that have not returned
UploadsInFlight == {i \in 1..Len(uploads) : uploads[i].phase # "returned"}

\* C23: at no time are two calls of takePhoto, or two calls of
\* uploadPhotosToSupabase, in flight for the session.
C23_OneAtATime ==
    /\ Len(captures) <= 1
    /\ Cardinality(UploadsInFlight) <= 1

----------------------------------------------------------------------------
(* C24                                                                     *)

\* the images of a pallet and side: the one the camera returns when it
\* was opened for them, and its enhancement
ImagesOf(context) == {dataUrl(context), upscaleImage(dataUrl(context))}

\* C24: a photo is never recorded under a pallet and side other than the
\* ones its capture was requested for, whenever its result arrives or is
\* confirmed.
C24_RecordedWhereRequested ==
    \A ph \in DOMAIN photos : ph.photoUri \in ImagesOf(<<ph.palletIndex, ph.sideIndex>>)

----------------------------------------------------------------------------
(* C25                                                                     *)

\* C25: whatever list finalize or delete writes to localStorage, in any
\* state of the wizard and the store, loadLocalSessions accepts it and
\* returns its records unchanged and in the same order; and whenever the
\* provider is mounted on what the program left in localStorage, the
\* in-memory list is the stored list and the item is left as it is.
C25_ArchiveRoundTrip ==
    /\ [][(storage' # storage /\ storage'.kind = "array") =>
            loadLocalSessions(storage') = [sessions |-> storage'.sessions, item |-> storage']]_vars
    /\ [][(~mounted /\ mounted') =>
            /\ localSessions' = StoredList(storage)
            /\ storage' = storage]_vars

\* a session was finalized and written in front of the two older
\* records, the page was closed and opened again, and the three records
\* are loaded in that order
C25_Witness ==
    /\ mounted
    /\ Len(localSessions) = 3
    /\ localSessions[1].id = uuidv4(1)
    /\ SubSeq(localSessions, 2, 3) = <<StoredSession1, StoredSession>>
    /\ savedSessions = Item(localSessions)
    /\ storage = savedSessions
    /\ uuids = 1
    /\ totalPallets = 0

----------------------------------------------------------------------------
(* C26: PhotoMemoryManager never holds more than maxPhotos photos, and a   *)
(* storePhoto that finds the Map at capacity first evicts a quarter of the *)
(* entries, rounded up, those accessed longest ago, and then stores the    *)
(* new photo.                                                              *)

\* the list without its n entries accessed longest ago, found one at a time
RECURSIVE WithoutOldest(_, _)
WithoutOldest(list, n) ==
    IF n = 0 \/ list = <<>> THEN list
    ELSE LET oldest == CHOOSE i \in 1..Len(list) :
                          \A j \in 1..Len(list) :
                              /\ list[i].lastAccessed <= list[j].lastAccessed
                              /\ list[i].lastAccessed = list[j].lastAccessed => i <= j
         IN  WithoutOldest(EntriesAt(list, (1..Len(list)) \ {oldest}), n - 1)

\* a quarter of maxPhotos, rounded up
Quarter == CHOOSE n \in 0..maxPhotos : 4 * n >= maxPhotos /\ 4 * (n - 1) < maxPhotos

StoredAfterEviction(url) ==
    LET rest == WithoutOldest(managerPhotos, Quarter)
        photo == [dataUrl |-> url, lastAccessed |-> now]
    IN  /\ Len(rest) = maxPhotos - Quarter
        /\ \/ managerPhotos' = Append(rest, photo)
           \/ \E i \in 1..Len(rest) : managerPhotos' = [rest EXCEPT ![i] = photo]

\* C26: at most maxPhotos photos are held at any time, and a storePhoto at
\* capacity leaves the Map without its quarter of oldest entries and with
\* the new photo
C26_BoundedMemory ==
    /\ [](Len(managerPhotos) <= maxPhotos)
    /\ [][\A key \in ManagerKeys, url \in PhotoUris :
              (Len(managerPhotos) = maxPhotos /\ storePhoto(key, url))
                  => StoredAfterEviction(url)]_vars

\* the Map at capacity, holding photos of different ages, is reached
C26_Witness ==
    /\ Len(managerPhotos) = maxPhotos
    /\ managerPhotos[1].lastAccessed < managerPhotos[maxPhotos].lastAccessed

----------------------------------------------------------------------------
(* C27: once an enhancement has failed no later capture starts one, and a  *)
(* capture whose enhancement failed or was skipped offers the camera image *)

\* the captures whose image is with upscaleImage
Upscaling == {i \in 1..Len(captures) : captures[i].phase = "upscale"}

\* capture i ends without an enhanced image in this step
EndsUnenhanced(i) ==
    \/ \E setItemThrows \in BOOLEAN : upscaleSettles(i, TRUE, setItemThrows)
    \/ imgOnLoad(i) /\ aiUpscaleDisabled

\* C27: after a failed enhancement no step hands an image to upscaleImage,
\* and a capture of the mounted component that ends without enhancement
\* offers the image the camera returned
C27_NoSecondAttempt ==
    [][/\ aiFailed => Cardinality(Upscaling') <= Cardinality(Upscaling)
       /\ \A i \in 1..Len(captures) :
              (captures[i].live /\ EndsUnenhanced(i))
                  => (cameraView'.photoTaken /\ cameraView'.photoUri = captures[i].url)]_vars

----------------------------------------------------------------------------
(* C28: what uploadPhotosToSupabase returns, and isUploading afterwards    *)

\* the guard of the call fails for what the call saw
NothingToUpload(call) ==
    \/ ~call.client
    \/ call.photos = 0
    \/ call.customerName = EmptyString
    \/ call.poNumber = EmptyString

ReturnedUploads == {i \in 1..Len(uploads) : uploads[i].phase = "returned"}

\* C28: a call without client, photo, customer name or PO number returns
\* false and sends nothing to the backend; any other call returns true
\* exactly when the session row was created and nothing was thrown,
\* whatever happened to single photos; and the step in which such a call
\* returns leaves isUploading false
C28_UploadResult ==
    /\ [](\A i \in ReturnedUploads :
              IF NothingToUpload(uploads[i])
              THEN uploads[i].result = <<FALSE>> /\ ~uploads[i].contacted
              ELSE uploads[i].result = <<uploads[i].created /\ ~uploads[i].threw>>)
    /\ [][\A i \in 1..Len(uploads) :
              (uploads[i].phase # "returned" /\ uploads'[i].phase = "returned")
                  => ~isUploading']_vars

\* a call has returned true although a photo of it failed to upload or to
\* be recorded, and isUploading is false
C28_Witness ==
    \E i \in ReturnedUploads :
        /\ uploads[i].result = <<TRUE>>
        /\ uploads[i].photoFailed
        /\ ~isUploading

----------------------------------------------------------------------------
(* C29: the validators and the limits their messages state                 *)

\* C29: a customer name is accepted only when its sanitized length is less
\* than 100 characters, a PO number only below 50 characters
C29_LimitsEnforced ==
    /\ validateCustomerName(customerName).isValid
          => Len(sanitizeInput(customerName)) < MaxNameLength
    /\ validatePoNumber(poNumber).isValid
          => Len(sanitizeInput(poNumber)) < MaxPoLength

----------------------------------------------------------------------------
(* C30: the persisted list and the in-memory list                          *)

\* the records localStorage holds: none when the item is absent
PersistedSessions ==
    IF storage # NoItem /\ storage.kind = "array" THEN storage.sessions ELSE <<>>

InSync == localSessions = PersistedSessions

\* a finalize or a delete whose setItem goes through, and one whose
\* setItem throws
WriteSucceeds ==
    \/ saveSessionToLocalStorage(FALSE) /\ returned' = <<TRUE>>
    \/ \E sessionId \in SessionIds : deleteLocalSession(sessionId, FALSE)
WriteFails ==
    \/ saveSessionToLocalStorage(TRUE) /\ returned' = <<FALSE>>
    \/ \E sessionId \in SessionIds : deleteLocalSession(sessionId, TRUE)

\* C30: a finalize or delete whose write goes through and a load leave the
\* persisted list equal to the in-memory list, and under a mounted
\* provider the two lists come to differ only in a step whose write fails
C30_ListsAgree ==
    [][/\ (mounted /\ WriteSucceeds) => InSync'
       /\ Mount => InSync'
       /\ (mounted /\ mounted' /\ InSync /\ ~InSync') => WriteFails]_vars

\* a record was deleted and the session finalized, both written, and the
\* two lists hold the new record and the remaining one
C30_Witness ==
    /\ mounted
    /\ returned = <<TRUE>>
    /\ InSync
    /\ Len(localSessions) = 2
    /\ localSessions[1].id = uuidv4(1)
    /\ localSessions[2].id = StoredSession.id

====
